---- MODULE Spec2Model ----
(***************************************************************************)
(* Model of the two call-graph bundlers of the repository:                 *)
(*   src/build_prompt.py         (Mode A: transitive closure, whole files) *)
(*   src/build_prompt_filter.py  (Mode B: entry plus direct callees)       *)
(*                                                                         *)
(* A source file's text is a sequence of tokens.  A token is one           *)
(* whitespace character (" " or "\n"), one punctuation character, one     *)
(* quoted string, or one whole identifier.  Two identifiers are never      *)
(* adjacent in a text (they would be one identifier), so every regular     *)
(* expression of the source can be evaluated token by token with the       *)
(* result it has on the characters.                                        *)
(***************************************************************************)
EXTENDS Integers, Sequences, FiniteSets, TLC

(***************************************************************************)
(* Bounds of the model.                                                    *)
(***************************************************************************)
\* Largest number of source files found by the recursive search.
MaxUnits == 2

(***************************************************************************)
(* Token classes.                                                          *)
(***************************************************************************)
\* \s
WS == {" ", "\n"}
\* (?:public|private|internal|static|protected|async)
Modifiers == {"public"}
\* Identifiers starting with a capital letter: [A-Z][a-zA-Z0-9_]*
CapWords == {"Foo", "Bar", "Baz", "CommandMethod"}
\* Identifiers: [a-zA-Z_]\w*
Words == Modifiers \cup {"void"} \cup CapWords
\* Characters of the return type in the entry signature: [\w\.<>\[\]]
TypeChars == Words \cup {"[", "]"}
\* The quoted argument of the attribute that equals the target command.
TargetArg == "\"T\""

(***************************************************************************)
(* Inputs: the texts a source file can hold                                *)
(***************************************************************************)
\* [CommandMethod("T")] on a line of its own.
Marker == <<"[", "CommandMethod", "(", TargetArg, ")", "]", "\n">>

Sig(name) == <<"public", " ", "void", " ", name, "(", ")", " ", "{">>

Call(name) == <<" ", name, "(", ")", ";">>

RECURSIVE Calls(_)
Calls(names) == IF names = << >> THEN << >> ELSE Call(Head(names)) \o Calls(Tail(names))

\* public void name() { calls }
Def(name, callees) == Sig(name) \o Calls(callees) \o <<" ", "}", "\n">>

Texts ==
    { \* the command Foo, which calls Bar and itself
      Marker \o Def("Foo", <<"Bar", "Foo">>),
      \* the command Foo, which calls itself and Bar, before Bar
      Marker \o Def("Foo", <<"Foo", "Bar">>) \o Def("Bar", << >>),
      \* inside a block named Baz: the command Foo, calling nothing, before a
      \* helper Bar that calls Baz
      <<"Baz", " ", "{", "\n">> \o Marker \o Def("Foo", << >>) \o Def("Bar", <<"Baz">>)
         \o <<"}", "\n">>,
      \* the command Foo, declared without a modifier, calling Bar
      Marker \o <<" ", "void", " ", "Foo", "(", ")", " ", "{">> \o Call("Bar") \o <<" ", "}", "\n">>,
      \* the command Foo with a body that is never closed
      Marker \o Sig("Foo") \o Call("Bar") \o <<"\n">>,
      \* Bar calls Baz, which is defined after it
      Def("Bar", <<"Baz">>) \o Def("Baz", << >>),
      \* Baz is defined before Bar, which calls it
      Def("Baz", << >>) \o Def("Bar", <<"Baz">>),
      \* Bar calls back into Foo
      Def("Bar", <<"Foo">>),
      \* Baz calls Bar
      Def("Baz", <<"Bar">>),
      \* a second definition of Foo, which calls Baz
      Def("Foo", <<"Baz">>),
      \* a second definition of Foo that is never closed
      Sig("Foo") \o <<"\n">>
    }

Min(S) == CHOOSE x \in S : \A y \in S : x <= y

\* Index of the first token at or after i that is not whitespace
\* (Len(t) + 1 when there is none): the end of a greedy \s*.
RECURSIVE SkipWs(_, _)
SkipWs(t, i) ==
    IF i > Len(t) \/ t[i] \notin WS THEN i ELSE SkipWs(t, i + 1)

\* t[lo..hi] as a sequence (empty when lo > hi).
Slice(t, lo, hi) == [k \in 1..(hi - lo + 1) |-> t[lo + k - 1]]

(***************************************************************************)
(* get_entry_point                                                         *)
(***************************************************************************)
\* Index of the first "]" at or after r (0: none): the end of [^\]]*\]
RECURSIVE CloseBracket(_, _)
CloseBracket(t, r) ==
    IF r > Len(t) THEN 0 ELSE IF t[r] = "]" THEN r ELSE CloseBracket(t, r + 1)

\* command_pattern matched at s:  \[CommandMethod\s*\(\s*"T"[^\]]*\]
\* The value is the index of the closing "]" (0: no match at s).
CommandPatternAt(t, s) ==
    IF t[s] = "[" /\ s + 1 <= Len(t) /\ t[s + 1] = "CommandMethod"
    THEN LET o == SkipWs(t, s + 2) IN
         IF o <= Len(t) /\ t[o] = "("
         THEN LET q == SkipWs(t, o + 1) IN
              IF q <= Len(t) /\ t[q] = TargetArg THEN CloseBracket(t, q + 1) ELSE 0
         ELSE 0
    ELSE 0

\* command_pattern.search(content) from s on: the end of the leftmost
\* match (0: none).
RECURSIVE CommandPatternSearch(_, _)
CommandPatternSearch(t, s) ==
    IF s > Len(t) THEN 0
    ELSE IF CommandPatternAt(t, s) > 0 THEN CommandPatternAt(t, s)
    ELSE CommandPatternSearch(t, s + 1)

\* Going left from i, the index of the first token not in the class
\* (from - 1 when every token down to from is in it).
RECURSIVE BackOver(_, _, _, _)
BackOver(t, class, from, i) ==
    IF i < from \/ t[i] \notin class THEN i ELSE BackOver(t, class, from, i - 1)

\* method_sig_pattern:
\*   \s*(?:modifier)?\s+[\w\.<>\[\]]+\s+([a-zA-Z_]\w*)\s*\(
\* n is the captured name of a match lying at or after from: an identifier
\* followed by \s*\( and preceded by \s+, a whole run of type characters
\* and one more whitespace.
MethodSigAt(t, from, n) ==
    /\ t[n] \in Words
    /\ LET o == SkipWs(t, n + 1) IN o <= Len(t) /\ t[o] = "("
    /\ n - 1 >= from /\ t[n - 1] \in WS
    /\ LET w == BackOver(t, WS, from, n - 1)
           z == BackOver(t, TypeChars, from, w)
       IN z < w /\ z >= from /\ t[z] \in WS

\* method_sig_pattern.search(following_text).group(1), the text following
\* from position from; "" when there is no match.  The leftmost match is
\* the one whose name comes first.
RECURSIVE MethodSigFrom(_, _, _)
MethodSigFrom(t, from, n) ==
    IF n > Len(t) THEN ""
    ELSE IF MethodSigAt(t, from, n) THEN t[n]
    ELSE MethodSigFrom(t, from, n + 1)

MethodSigSearch(t, from) == MethodSigFrom(t, from, from)

\* The method name found in one file: "" when the file has no marker or
\* no signature follows the marker.
EntryInFile(t) ==
    LET e == CommandPatternSearch(t, 1) IN
    IF e = 0 THEN "" ELSE MethodSigSearch(t, e + 1)

(***************************************************************************)
(* Shared tail of the definition and body patterns:  \s*\(.*?\)\s*\{       *)
(***************************************************************************)
\* The lazy .*? from r on: the first ")" followed by optional whitespace
\* and "{".  dotall says whether . matches "\n".  The value is the index
\* of that "{" (0: no match).
RECURSIVE ParenRest(_, _, _)
ParenRest(t, r, dotall) ==
    IF r > Len(t) THEN 0
    ELSE IF ~dotall /\ t[r] = "\n" THEN 0
    ELSE IF t[r] = ")" /\ SkipWs(t, r + 1) <= Len(t) /\ t[SkipWs(t, r + 1)] = "{"
         THEN SkipWs(t, r + 1)
         ELSE ParenRest(t, r + 1, dotall)

\* After the name at n: optional whitespace, "(", then ParenRest.
SigRestEnd(t, n, dotall) ==
    LET o == SkipWs(t, n + 1) IN
    IF o > Len(t) \/ t[o] # "(" THEN 0 ELSE ParenRest(t, o + 1, dotall)

(***************************************************************************)
(* create_method_definition_index                                          *)
(***************************************************************************)
\* The lazy .*? before the capture, from c on: the first identifier on the
\* line from which the rest of the signature matches.  The value is
\* <<name, index of "{">>, or <<"", 0>>.
RECURSIVE CaptureFrom(_, _)
CaptureFrom(t, c) ==
    IF c > Len(t) \/ t[c] = "\n" THEN <<"", 0>>
    ELSE IF t[c] \in Words /\ SigRestEnd(t, c, FALSE) > 0
         THEN <<t[c], SigRestEnd(t, c, FALSE)>>
         ELSE CaptureFrom(t, c + 1)

\* definition_pattern (re.MULTILINE, . stops at "\n"):
\*   ^\s*(?:modifier)\s+.*?([a-zA-Z_]\w*)\s*\(.*?\)\s*\{
\* tried at the line start s.
DefinitionAt(t, s) ==
    LET p == SkipWs(t, s) IN
    IF p > Len(t) \/ t[p] \notin Modifiers THEN <<"", 0>>
    ELSE IF p + 1 > Len(t) \/ t[p + 1] \notin WS THEN <<"", 0>>
    ELSE CaptureFrom(t, SkipWs(t, p + 1))

\* ^ under re.MULTILINE: the start of the text or just after a "\n".
LineStart(t, s) == s = 1 \/ t[s - 1] = "\n"

\* definition_pattern.finditer(content) from position pos on: the captured
\* names in match order.  The search goes on after the end of a match.
RECURSIVE DefinitionsFrom(_, _)
DefinitionsFrom(t, pos) ==
    IF pos > Len(t) THEN << >>
    ELSE IF LineStart(t, pos) /\ DefinitionAt(t, pos)[2] > 0
         THEN <<DefinitionAt(t, pos)[1]>> \o DefinitionsFrom(t, DefinitionAt(t, pos)[2] + 1)
         ELSE DefinitionsFrom(t, pos + 1)

Definitions(t) == DefinitionsFrom(t, 1)

(***************************************************************************)
(* find_method_body                                                        *)
(***************************************************************************)
\* The lazy .*? of the body pattern, from n on: the first occurrence of
\* NAME that follows a whitespace and from which the rest of the signature
\* matches.  The value is the index of the "{" (0: none).
RECURSIVE NameFrom(_, _, _)
NameFrom(t, method_name, n) ==
    IF n > Len(t) THEN 0
    ELSE IF t[n] = method_name /\ t[n - 1] \in WS /\ SigRestEnd(t, n, TRUE) > 0
         THEN SigRestEnd(t, n, TRUE)
         ELSE NameFrom(t, method_name, n + 1)

\* pattern (re.DOTALL):  (?:modifier)?\s+.*?\s+NAME\s*\(.*?\)\s*\{
\* tried at s.  The first \s+ takes the whole whitespace run after the
\* optional modifier and the lazy .*? then reaches the occurrences of NAME
\* that follow a whitespace, in text order; only when none of them matches
\* does the first \s+ give a whitespace back to the second one, so that
\* NAME directly after a run of two or more whitespaces matches.
\* The value is the index of the "{" ending the match (0: no match at s).
BodyPatternAt(t, method_name, s) ==
    LET w == IF t[s] \in Modifiers THEN s + 1 ELSE s IN
    IF w > Len(t) \/ t[w] \notin WS THEN 0
    ELSE LET q == SkipWs(t, w)
             e == NameFrom(t, method_name, q + 1)
         IN IF e > 0 THEN e
            ELSE IF q - w >= 2 /\ q <= Len(t) /\ t[q] = method_name
                 THEN SigRestEnd(t, q, TRUE)
                 ELSE 0

\* pattern.search(content) from s on: the start of the leftmost match
\* (0: no match).
RECURSIVE BodyPatternSearch(_, _, _)
BodyPatternSearch(t, method_name, s) ==
    IF s > Len(t) THEN 0
    ELSE IF BodyPatternAt(t, method_name, s) > 0 THEN s
    ELSE BodyPatternSearch(t, method_name, s + 1)

\* The brace counting loop from index i on with the count brace_count
\* before it: the index where the count is 0 (0: the text ends first).
RECURSIVE BraceClose(_, _, _)
BraceClose(t, i, brace_count) ==
    IF i > Len(t) THEN 0
    ELSE LET c == brace_count + (IF t[i] = "{" THEN 1 ELSE IF t[i] = "}" THEN -1 ELSE 0) IN
         IF c = 0 THEN i ELSE BraceClose(t, i + 1, c)

\* content[match.start() : i + 1]
BodySpan(t, start, close) == Slice(t, start, close)

\* find_method_body(content, method_name); << >> is "".
find_method_body(t, method_name) ==
    LET s == BodyPatternSearch(t, method_name, 1) IN
    IF s = 0 THEN << >>
    ELSE LET close == BraceClose(t, BodyPatternAt(t, method_name, s) + 1, 1) IN
         IF close = 0 THEN << >> ELSE BodySpan(t, s, close)

(***************************************************************************)
(* find_called_methods                                                     *)
(***************************************************************************)
\* \b([A-Z][a-zA-Z0-9_]*)(?=\s*\()
find_called_methods(body) ==
    {body[i] : i \in {j \in 1..Len(body) :
                        /\ body[j] \in CapWords
                        /\ SkipWs(body, j + 1) <= Len(body)
                        /\ body[SkipWs(body, j + 1)] = "("}}

(***************************************************************************)
(* The four functions on the texts of the model.  Each table holds the     *)
(* function's values on the texts a file can hold (and on the bodies       *)
(* extracted from them), so that a value is computed once.                 *)
(***************************************************************************)
TextEntry == [t \in Texts |-> EntryInFile(t)]

TextDefinitions == [t \in Texts |-> Definitions(t)]

TextBodies == [t \in Texts |-> [method_name \in Words |-> find_method_body(t, method_name)]]

Spans == Texts \cup {TextBodies[t][method_name] : t \in Texts, method_name \in Words}

SpanCalls == [body \in Spans |-> find_called_methods(body)]

\* EntryInFile, Definitions, find_method_body and find_called_methods, as
\* main() calls them.
EntryOf(t) == TextEntry[t]
DefinitionsOf(t) == TextDefinitions[t]
BodyOf(t, method_name) == TextBodies[t][method_name]
CalledIn(body) == SpanCalls[body]

(***************************************************************************)
(* The loops of get_entry_point and create_method_definition_index over   *)
(* the files                                                               *)
(***************************************************************************)
\* The loop of get_entry_point from the file at position p of the dict on:
\* the first file with a marker followed by a signature; <<"", 0>> is
\* (None, None).
RECURSIVE EntryFrom(_, _)
EntryFrom(fc, p) ==
    IF p > Len(fc) THEN <<"", 0>>
    ELSE LET method_name == EntryOf(fc[p].text) IN
         IF method_name # "" THEN <<method_name, p>> ELSE EntryFrom(fc, p + 1)

\* get_entry_point(target_command, file_contents)
get_entry_point(fc) == EntryFrom(fc, 1)

\* An index in which the last definition scanned wins.
IndexAddOverwrite(index, method_name, path) ==
    [n \in DOMAIN index \cup {method_name} |->
        IF n = method_name THEN path ELSE index[n]]

\* if method_name not in index: index[method_name] = path
IndexAdd(index, method_name, path) ==
    IF method_name \in DOMAIN index THEN index
    ELSE index @@ (method_name :> path)

\* The inner loop of create_method_definition_index over one file's matches.
RECURSIVE IndexMatches(_, _, _)
IndexMatches(index, names, path) ==
    IF names = << >> THEN index
    ELSE IndexMatches(IndexAdd(index, Head(names), path), Tail(names), path)

\* One iteration of the outer loop: the file at position path of the dict.
IndexUnit(index, fc, path) == IndexMatches(index, DefinitionsOf(fc[path].text), path)

\* The outer loop over the first n files, in the dict's order.
RECURSIVE IndexUpTo(_, _)
IndexUpTo(fc, n) ==
    IF n = 0 THEN << >> ELSE IndexUnit(IndexUpTo(fc, n - 1), fc, n)

create_method_definition_index(fc) == IndexUpTo(fc, Len(fc))

(***************************************************************************)
(* Ordering and rendering                                                  *)
(***************************************************************************)
\* Names (p.name) a source file can have.  Files in different directories
\* of the tree can have the same name.
FileNames == {"Main.cs", "Util.cs", "util.cs"}

ORDER_HINT == << >>

\* p.name.lower()
Lower(name) ==
    CASE name = "Main.cs" -> "main.cs"
      [] name = "Util.cs" -> "util.cs"
      [] OTHER -> name

\* x < y for the lower-cased names.
StrLess(x, y) == x = "main.cs" /\ y = "util.cs"

\* ORDER_HINT.index(p.name) if p.name in ORDER_HINT else 1000
HintRank(name) ==
    IF \E i \in DOMAIN ORDER_HINT : ORDER_HINT[i] = name
    THEN Min({i \in DOMAIN ORDER_HINT : ORDER_HINT[i] = name}) - 1
    ELSE 1000

\* The sort key of the file at position p of the dict, and < on keys.
SortKey(fc, p) == <<HintRank(fc[p].name), Lower(fc[p].name)>>
KeyLess(k1, k2) == k1[1] < k2[1] \/ (k1[1] = k2[1] /\ StrLess(k1[2], k2[2]))

\* sorted(list, key=...).  The sort is stable: an element comes after the
\* elements with a smaller key and after those with an equal key that are
\* before it in the list.
sorted(fc, list) ==
    LET Before(j, i) ==
            \/ KeyLess(SortKey(fc, list[j]), SortKey(fc, list[i]))
            \/ (SortKey(fc, list[j]) = SortKey(fc, list[i]) /\ j < i)
        Place(i) == Cardinality({j \in DOMAIN list : Before(j, i)}) + 1
    IN [r \in DOMAIN list |-> list[CHOOSE i \in DOMAIN list : Place(i) = r]]

\* list(a_set): the elements of the set in any order the hash table gives.
ListsOf(S) ==
    {l \in [1..Cardinality(S) -> S] : \A i, j \in DOMAIN l : i # j => l[i] # l[j]}

\* str.rstrip()
RECURSIVE rstrip(_)
rstrip(t) ==
    IF t # << >> /\ t[Len(t)] \in WS THEN rstrip(SubSeq(t, 1, Len(t) - 1)) ELSE t

\* Mode A's output_text: the manifest's file list and one section per file
\* with the whole file text.
ReportA(fc, files) ==
    [file_list |-> [i \in DOMAIN files |-> fc[files[i]].name],
     sections  |-> [i \in DOMAIN files |->
                      [name |-> fc[files[i]].name, payload |-> rstrip(fc[files[i]].text)]]]

(***************************************************************************)
(* Mode B's dict of bodies (a defaultdict(set), which keeps the order in   *)
(* which its keys were first used)                                         *)
(***************************************************************************)
DictKeys(d) == [i \in DOMAIN d |-> d[i].path]

DictGet(d, path) ==
    IF \E i \in DOMAIN d : d[i].path = path
    THEN d[CHOOSE i \in DOMAIN d : d[i].path = path].functions
    ELSE {}

\* included_functions[path].add(body)
DictAdd(d, path, body) ==
    IF \E i \in DOMAIN d : d[i].path = path
    THEN [i \in DOMAIN d |->
            IF d[i].path = path
            THEN [d[i] EXCEPT !.functions = @ \cup {body}]
            ELSE d[i]]
    ELSE Append(d, [path |-> path, functions |-> {body}])

\* Mode B's output_text: one section per file in sorted_files with the
\* bodies kept for it.  The bodies of a section are joined in their sorted
\* order, which the set determines.
ReportB(fc, included_functions, sorted_files) ==
    [i \in DOMAIN sorted_files |->
       [name    |-> fc[sorted_files[i]].name,
        payload |-> DictGet(included_functions, sorted_files[i])]]

(***************************************************************************)
(* State                                                                   *)
(***************************************************************************)
VARIABLES
    file_contents,  \* the dict {path: text} both scripts read: a sequence in
                    \* the dict's order, a path being a position in it
    a,              \* the locals of main() of build_prompt.py, and its place
    b               \* the locals of main() of build_prompt_filter.py

vars == <<file_contents, a, b>>

NoIndex == << >>

Init ==
    /\ \E n \in 0..MaxUnits :
          file_contents \in [1..n -> [name : FileNames, text : Texts]]
    /\ a = [pc |-> "start", method_index |-> NoIndex, scanned |-> 0,
            entry_method |-> "", entry_file |-> 0,
            files_to_include |-> {}, methods_to_process |-> {},
            processed_methods |-> {}, files |-> << >>, clipboard |-> << >>]
    /\ b = [pc |-> "start", method_index |-> NoIndex,
            entry_method |-> "", entry_file |-> 0, entry_body |-> << >>,
            included_functions |-> << >>, custom_dependencies |-> {},
            iterated |-> {}, extracted |-> << >>,
            sorted_files |-> << >>, clipboard |-> << >>]

(***************************************************************************)
(* Mode A: main() of build_prompt.py                                       *)
(***************************************************************************)
\* if not file_contents
NoFiles(fc) == fc = << >>

\* if not file_contents: print(...); return
A_Collect ==
    /\ a.pc = "start"
    /\ a' = [a EXCEPT !.pc = IF NoFiles(file_contents) THEN "no_files" ELSE "index"]
    /\ UNCHANGED <<file_contents, b>>

\* create_method_definition_index: one iteration of its loop over the
\* files; after the last file the index is complete.
A_IndexUnit ==
    /\ a.pc = "index"
    /\ a' = [a EXCEPT !.method_index = IndexUnit(a.method_index, file_contents, a.scanned + 1),
                      !.scanned = a.scanned + 1,
                      !.pc = IF a.scanned + 1 = Len(file_contents) THEN "resolve" ELSE "index"]
    /\ UNCHANGED <<file_contents, b>>

\* if not entry_method
NoEntry(entry_method) == entry_method = ""

\* A closure that starts from no file.
SeedFilesEmpty(entry_file) == {}

\* files_to_include = {entry_file}
SeedFiles(entry_file) == {entry_file}

\* get_entry_point; on (None, None) print the error and return, else seed
\* the three sets of the dependency analysis.
A_Resolve ==
    /\ a.pc = "resolve"
    /\ LET entry == get_entry_point(file_contents) IN
       a' = IF NoEntry(entry[1])
            THEN [a EXCEPT !.pc = "no_entry"]
            ELSE [a EXCEPT !.entry_method = entry[1],
                           !.entry_file = entry[2],
                           !.files_to_include = SeedFiles(entry[2]),
                           !.methods_to_process = {entry[1]},
                           !.processed_methods = {},
                           !.pc = "loop"]
    /\ UNCHANGED <<file_contents, b>>

\* A loop that forgets to mark the popped name.
MarkProcessedForgotten(processed_methods, method_name) == processed_methods

\* processed_methods.add(method_name)
MarkProcessed(processed_methods, method_name) == processed_methods \cup {method_name}

\* {call for call in called_methods if call in method_index}
ProjectDependencies(called_methods, method_index) ==
    {call \in called_methods : call \in DOMAIN method_index}

\* The test on processed_methods inverted.
AddToProcessInverted(methods_to_process, project_dependencies, processed_methods) ==
    methods_to_process \cup {c \in project_dependencies : c \in processed_methods}

\* for called_method in project_dependencies:
\*     if called_method not in processed_methods: methods_to_process.add(...)
AddToProcess(methods_to_process, project_dependencies, processed_methods) ==
    methods_to_process \cup {c \in project_dependencies : c \notin processed_methods}

\* One iteration of the while loop, for the element method_name that
\* methods_to_process.pop() removes.
PopStep(st, fc, method_name) ==
    LET rest == st.methods_to_process \ {method_name} IN
    IF method_name \in st.processed_methods
    THEN [st EXCEPT !.methods_to_process = rest]
    ELSE LET processed == MarkProcessed(st.processed_methods, method_name) IN
         IF method_name \notin DOMAIN st.method_index
         THEN [st EXCEPT !.methods_to_process = rest, !.processed_methods = processed]
         ELSE LET file_path   == st.method_index[method_name]
                  included    == st.files_to_include \cup {file_path}
                  method_body == BodyOf(fc[file_path].text, method_name)
              IN IF method_body = << >>
                 THEN [st EXCEPT !.methods_to_process = rest,
                                 !.processed_methods = processed,
                                 !.files_to_include = included]
                 ELSE [st EXCEPT !.methods_to_process =
                                     AddToProcess(rest,
                                         ProjectDependencies(CalledIn(method_body),
                                                             st.method_index),
                                         processed),
                                 !.processed_methods = processed,
                                 !.files_to_include = included]

\* while methods_to_process: ... ; set.pop() removes an arbitrary element.
A_Pop ==
    /\ a.pc = "loop"
    /\ \E method_name \in a.methods_to_process :
          a' = PopStep(a, file_contents, method_name)
    /\ UNCHANGED <<file_contents, b>>

\* The loop has ended: sort the files, build the report and hand it to
\* pyperclip.copy.
A_Render ==
    /\ a.pc = "loop"
    /\ a.methods_to_process = {}
    /\ \E list \in ListsOf(a.files_to_include) :
          LET files == sorted(file_contents, list) IN
          a' = [a EXCEPT !.files = files,
                         !.clipboard = Append(a.clipboard, ReportA(file_contents, files)),
                         !.pc = "done"]
    /\ UNCHANGED <<file_contents, b>>

NextA == A_Collect \/ A_IndexUnit \/ A_Resolve \/ A_Pop \/ A_Render

(***************************************************************************)
(* Mode B: main() of build_prompt_filter.py                                *)
(***************************************************************************)
\* The two scripts share nothing but the files they read, so the order of
\* their steps changes nothing they compute: the model runs Mode B on the
\* tree once Mode A has ended on it.
AEnded == a.pc \in {"no_files", "no_entry", "done"}

\* if not file_contents: print(...); return
B_Collect ==
    /\ AEnded
    /\ b.pc = "start"
    /\ b' = [b EXCEPT !.pc = IF NoFiles(file_contents) THEN "no_files" ELSE "index"]
    /\ UNCHANGED <<file_contents, a>>

B_Index ==
    /\ b.pc = "index"
    /\ b' = [b EXCEPT !.method_index = create_method_definition_index(file_contents),
                      !.pc = "resolve"]
    /\ UNCHANGED <<file_contents, a>>

B_Resolve ==
    /\ b.pc = "resolve"
    /\ LET entry == get_entry_point(file_contents) IN
       b' = IF NoEntry(entry[1])
            THEN [b EXCEPT !.pc = "no_entry"]
            ELSE [b EXCEPT !.entry_method = entry[1], !.entry_file = entry[2],
                           !.pc = "entry_body"]
    /\ UNCHANGED <<file_contents, a>>

\* {call for call in direct_calls if call in method_index and call != entry_method}
CustomDependencies(direct_calls, method_index, entry_method) ==
    {call \in direct_calls : call \in DOMAIN method_index /\ call # entry_method}

\* A check of the entry body that never fires.
NoBodyNever(entry_body) == FALSE

\* if not entry_body
NoBody(entry_body) == entry_body = << >>

\* Steps 1 to 3: extract the entry body (return when it is empty), keep it
\* under the entry's file and find the direct dependencies.  extracted
\* records the names find_method_body is called for.
B_EntryBody ==
    /\ b.pc = "entry_body"
    /\ LET entry_body == BodyOf(file_contents[b.entry_file].text, b.entry_method) IN
       b' = IF NoBody(entry_body)
            THEN [b EXCEPT !.extracted = Append(b.extracted, b.entry_method),
                           !.pc = "no_entry_body"]
            ELSE [b EXCEPT !.extracted = Append(b.extracted, b.entry_method),
                           !.entry_body = entry_body,
                           !.included_functions = DictAdd(<< >>, b.entry_file, entry_body),
                           !.custom_dependencies =
                               CustomDependencies(CalledIn(entry_body),
                                                  b.method_index, b.entry_method),
                           !.pc = "deps"]
    /\ UNCHANGED <<file_contents, a>>

\* The body of the loop of step 4 for one dependency: keep its body when
\* one is found.
DepStep(included_functions, fc, method_index, method_name) ==
    LET file_path   == method_index[method_name]
        method_body == BodyOf(fc[file_path].text, method_name)
    IN IF method_body = << >> THEN included_functions
       ELSE DictAdd(included_functions, file_path, method_body)

\* Step 4, one iteration of the loop over the set custom_dependencies, in
\* the order the set gives; iterated holds the names the loop has been
\* through.
B_Dep ==
    /\ b.pc = "deps"
    /\ \E method_name \in b.custom_dependencies \ b.iterated :
          b' = [b EXCEPT !.iterated = @ \cup {method_name},
                         !.extracted = Append(@, method_name),
                         !.included_functions =
                             DepStep(@, file_contents, b.method_index, method_name)]
    /\ UNCHANGED <<file_contents, a>>

\* Report generation: sort the dict's keys, build the report and hand it
\* to pyperclip.copy.
B_Render ==
    /\ b.pc = "deps"
    /\ b.iterated = b.custom_dependencies
    /\ LET sorted_files == sorted(file_contents, DictKeys(b.included_functions)) IN
       b' = [b EXCEPT !.sorted_files = sorted_files,
                      !.clipboard = Append(b.clipboard,
                                       ReportB(file_contents, b.included_functions, sorted_files)),
                      !.pc = "done"]
    /\ UNCHANGED <<file_contents, a>>

NextB == B_Collect \/ B_Index \/ B_Resolve \/ B_EntryBody \/ B_Dep \/ B_Render

Next == NextA \/ NextB

Spec == Init /\ [][Next]_vars

\* Mode A alone.  The script is one sequential process: whenever it has a
\* step to take, it takes it.
FairSpecA == Init /\ [][NextA]_vars /\ WF_vars(NextA)

(***************************************************************************)
(* Notions the properties are stated with                                  *)
(***************************************************************************)
\* The function names of the texts.
Names == {"Foo", "Bar", "Baz"}

\* The positions in t where a function called name is defined:
\* ... void name() {
DefSites(t, name) ==
    {n \in 3..(Len(t) - 3) :
        /\ t[n] = name /\ t[n - 1] \in WS /\ t[n - 2] = "void"
        /\ t[n + 1] = "(" /\ t[n + 2] = ")"
        /\ SkipWs(t, n + 3) <= Len(t) /\ t[SkipWs(t, n + 3)] = "{"}

\* The first token of the signature of the definition at n.
SigStart(t, n) ==
    IF n >= 5 /\ t[n - 4] \in Modifiers /\ t[n - 3] \in WS THEN n - 4 ELSE n - 2

\* The "}" that closes the block of the definition at n (0: never closed).
DefClose(t, n) == BraceClose(t, SkipWs(t, n + 3) + 1, 1)

\* The definition at n, from its signature through its closing "}".
DefText(t, n) == Slice(t, SigStart(t, n), DefClose(t, n))

\* The number of "{" minus the number of "}" in t.
RECURSIVE Net(_)
Net(t) ==
    IF t = << >> THEN 0
    ELSE Net(Tail(t)) + (IF Head(t) = "{" THEN 1 ELSE IF Head(t) = "}" THEN -1 ELSE 0)

\* Every "{" of t has a matching "}" and conversely.
Balanced(t) == Net(t) = 0 /\ \A k \in 1..Len(t) : Net(SubSeq(t, 1, k)) >= 0

\* sub occurs in t as a run of consecutive tokens.
Contains(t, sub) ==
    \E i \in 1..(Len(t) - Len(sub) + 1) : SubSeq(t, i, i + Len(sub) - 1) = sub

\* The files in which name is defined, going by the definition pattern.
Definers(fc, name) ==
    {p \in DOMAIN fc : \E i \in DOMAIN DefinitionsOf(fc[p].text) : DefinitionsOf(fc[p].text)[i] = name}

\* The names defined in some file.
Defined(fc) == {name \in Words : Definers(fc, name) # {}}

\* Mode A's body of a name in the index.
BodyA(name) == BodyOf(file_contents[a.method_index[name]].text, name)

\* Mode A has left its loop.
LoopEnded == (a.pc = "loop" /\ a.methods_to_process = {}) \/ a.pc = "done"

(***************************************************************************)
(* C1: Mode A's worklist loop terminates.  Once the loop is entered (the   *)
(* worklist holds the entry name, nothing is processed) it reaches an      *)
(* empty worklist, whatever element each pop removes and whatever cycles   *)
(* the calls make.                                                         *)
(***************************************************************************)
C1_LoopTerminates ==
    (a.pc = "loop") ~> (a.pc = "loop" /\ a.methods_to_process = {})

\* The loop has ended on a tree where Foo calls Bar and Bar calls Foo, both
\* processed.
C1_Witness ==
    /\ a.pc = "loop" /\ a.methods_to_process = {}
    /\ {"Foo", "Bar"} \subseteq a.processed_methods
    /\ {"Foo", "Bar"} \subseteq DOMAIN a.method_index
    /\ "Bar" \in CalledIn(BodyA("Foo"))
    /\ "Foo" \in CalledIn(BodyA("Bar"))

(***************************************************************************)
(* C2: when Mode A's loop has ended, the included files are a fixpoint of  *)
(* scanning: the calls found in the text of an included file, looked up    *)
(* in the index, lead to included files only.                              *)
(***************************************************************************)
C2_UnitFixpoint ==
    LoopEnded =>
        \A u \in a.files_to_include :
            \A call \in CalledIn(file_contents[u].text) :
                call \in DOMAIN a.method_index
                    => a.method_index[call] \in a.files_to_include

\* C2 as amended: when Mode A's loop has ended, the processed functions
\* are a fixpoint.  Every processed name of the index has its file
\* included, and when its body is extracted, every call found in the body
\* that is in the index is processed, with its file included.
C2_FunctionFixpoint ==
    LoopEnded =>
        \A m \in a.processed_methods \cap DOMAIN a.method_index :
            /\ a.method_index[m] \in a.files_to_include
            /\ \A call \in CalledIn(BodyA(m)) \cap DOMAIN a.method_index :
                  /\ call \in a.processed_methods
                  /\ a.method_index[call] \in a.files_to_include

\* The loop has ended after following a call from one file into another.
C2_Witness ==
    /\ LoopEnded
    /\ \E m \in a.processed_methods \cap DOMAIN a.method_index :
          \E call \in CalledIn(BodyA(m)) \cap DOMAIN a.method_index :
              /\ a.method_index[call] # a.method_index[m]
              /\ a.method_index[call] # a.entry_file

\* The calls in the definition at n, after the name of its signature.
DefCalls(t, n) == find_called_methods(Slice(t, n + 1, DefClose(t, n)))

\* The bodies Mode B keeps, each with the file it is kept under.
KeptB ==
    UNION {{<<b.included_functions[i].path, body>> :
               body \in b.included_functions[i].functions} :
              i \in DOMAIN b.included_functions}

\* The definitions of name in the files: <<file, position of the name>>.
AllDefSites(fc, name) ==
    UNION {{<<p, n>> : n \in {k \in DefSites(fc[p].text, name) : DefClose(fc[p].text, k) > 0}} :
              p \in DOMAIN fc}

(***************************************************************************)
(* C3: Mode B excludes transitive dependencies.  When the entry calls a    *)
(* dependency that calls a third function the entry does not call, the     *)
(* report holds the entry's body and the dependency's body, and no body    *)
(* of the report holds the text of a definition of the third function,     *)
(* wherever it is defined.                                                 *)
(***************************************************************************)
C3_NoTransitiveBodies ==
    b.pc = "done" =>
        \A dep \in b.custom_dependencies : \A c \in Names \ {dep, b.entry_method} :
            LET t == file_contents[b.method_index[dep]].text IN
            (/\ c \notin CalledIn(b.entry_body)
             /\ \E n \in DefSites(t, dep) : DefClose(t, n) > 0 /\ c \in DefCalls(t, n))
            => /\ <<b.entry_file, b.entry_body>> \in KeptB
               /\ \E k \in KeptB : \E n \in DefSites(t, dep) :
                     DefClose(t, n) > 0 /\ Contains(k[2], DefText(t, n))
               /\ \A k \in KeptB : \A site \in AllDefSites(file_contents, c) :
                     ~Contains(k[2], DefText(file_contents[site[1]].text, site[2]))

(***************************************************************************)
(* C4: balance correctness of find_method_body.  For a file whose braces   *)
(* match and a function defined in it, the span extracted for the          *)
(* function has as many "{" as "}" and is the definition from the first    *)
(* token of its signature on.  Stated of the bodies Mode B extracts: the   *)
(* entry's and each dependency's.                                          *)
(***************************************************************************)
C4_BalancedSpan ==
    b.pc = "done" =>
        \A name \in {b.entry_method} \cup b.custom_dependencies :
            LET t == file_contents[IF name = b.entry_method THEN b.entry_file
                                   ELSE b.method_index[name]].text
                body == BodyOf(t, name)
            IN (Balanced(t) /\ DefSites(t, name) # {})
               => /\ Net(body) = 0
                  /\ \E n \in DefSites(t, name) : body = DefText(t, n)

(***************************************************************************)
(* C5: no report after a fatal condition.  In both modes a run on no       *)
(* files, or on files without an entry point, hands nothing to the         *)
(* clipboard, and so does a run of Mode B whose entry body is empty; a     *)
(* run without any of these conditions that has ended has handed over      *)
(* exactly one report, and no run hands over more than one.                *)
(***************************************************************************)
\* The fatal conditions of a tree of files, for each mode.
FatalA == NoFiles(file_contents) \/ NoEntry(get_entry_point(file_contents)[1])

FatalB ==
    \/ FatalA
    \/ LET entry == get_entry_point(file_contents) IN
       BodyOf(file_contents[entry[2]].text, entry[1]) = << >>

BEnded == b.pc \in {"no_files", "no_entry", "no_entry_body", "done"}

C5_NoReportAfterFatal ==
    /\ FatalA => a.clipboard = << >>
    /\ FatalB => b.clipboard = << >>
    /\ (AEnded /\ ~FatalA) => Len(a.clipboard) = 1
    /\ (BEnded /\ ~FatalB) => Len(b.clipboard) = 1
    /\ Len(a.clipboard) <= 1 /\ Len(b.clipboard) <= 1
    /\ (a.pc = "done") = (a.clipboard # << >>)
    /\ (b.pc = "done") = (b.clipboard # << >>)

\* Mode A has handed over its report and Mode B has stopped at the empty
\* body of the entry.
C5_Witness ==
    /\ a.pc = "done" /\ Len(a.clipboard) = 1
    /\ b.pc = "no_entry_body" /\ b.clipboard = << >>

(***************************************************************************)
(* C6: determinism of ordering.  The order of the files in a report does   *)
(* not depend on the order in which the set or dict of the selected files  *)
(* is iterated: every order of Mode A's set sorts to the list of the       *)
(* report, and every order in which Mode B's loop goes through the         *)
(* dependencies gives the dict keys that sort to the list of its report.   *)
(***************************************************************************)
\* Mode B's dict after its loop went through the dependencies in the
\* order of the list deps.
RECURSIVE DepFold(_, _)
DepFold(included_functions, deps) ==
    IF deps = << >> THEN included_functions
    ELSE DepFold(DepStep(included_functions, file_contents, b.method_index, Head(deps)),
                 Tail(deps))

C6_OrderDeterministic ==
    /\ a.pc = "done" =>
          \A list \in ListsOf(a.files_to_include) : sorted(file_contents, list) = a.files
    /\ b.pc = "done" =>
          \A deps \in ListsOf(b.custom_dependencies) :
              sorted(file_contents,
                     DictKeys(DepFold(DictAdd(<< >>, b.entry_file, b.entry_body), deps)))
                  = b.sorted_files

(***************************************************************************)
(* C7: self-recursion exclusion.  When the entry function calls itself,    *)
(* Mode B extracts a body for the entry name once only, and the report     *)
(* holds the text of the entry body once: as the body kept under the       *)
(* entry's file, and within no other body.                                 *)
(***************************************************************************)
C7_EntryBodyOnce ==
    (/\ b.pc = "done"
     /\ LET t == file_contents[b.entry_file].text IN
        \E n \in DefSites(t, b.entry_method) :
            DefClose(t, n) > 0 /\ b.entry_method \in DefCalls(t, n))
    => /\ Cardinality({i \in DOMAIN b.extracted : b.extracted[i] = b.entry_method}) = 1
       /\ b.entry_method \notin b.custom_dependencies
       /\ <<b.entry_file, b.entry_body>> \in KeptB
       /\ \A k \in KeptB :
              Contains(k[2], b.entry_body) => k = <<b.entry_file, b.entry_body>>

(***************************************************************************)
(* C8: first definition wins.  While the files are scanned, an entry of    *)
(* the index never changes, and when the scan is over every file has been  *)
(* scanned and the index maps each name defined in some file, and no       *)
(* other name, to the first file in scan order that defines it.            *)
(***************************************************************************)
\* The index that maps every defined name to its first definer.
FirstDefiner(fc, index) ==
    /\ DOMAIN index = Defined(fc)
    /\ \A n \in DOMAIN index : index[n] = Min(Definers(fc, n))

C8_FirstDefinitionWins ==
    [][/\ \A n \in DOMAIN a.method_index :
              n \in DOMAIN a'.method_index /\ a'.method_index[n] = a.method_index[n]
       /\ a'.pc = "resolve" =>
              a'.scanned = Len(file_contents) /\ FirstDefiner(file_contents, a'.method_index)
       /\ b'.pc = "resolve" => FirstDefiner(file_contents, b'.method_index)]_vars

\* Both scans are over on files of which two define the same name.
C8_Witness ==
    /\ a.pc = "done" /\ b.pc \in {"resolve", "entry_body"}
    /\ \E n \in DOMAIN b.method_index :
          Cardinality(Definers(file_contents, n)) = 2 /\ a.method_index[n] = 1

(***************************************************************************)
(* C9: an entry body that is not found is not fatal in Mode A.  When the   *)
(* entry is resolved and no body is extracted for it, Mode A hands over a  *)
(* report whose closure is the entry's file and no other.                  *)
(***************************************************************************)
\* Mode A extracted no body for the entry function.
EntryBodyNotFoundA ==
    a.entry_method \notin DOMAIN a.method_index \/ BodyA(a.entry_method) = << >>

C9_OnlyEntryUnit ==
    (a.pc = "done" /\ EntryBodyNotFoundA)
    => Len(a.clipboard) = 1 /\ a.files_to_include = {a.entry_file}

\* C9 as amended: the closure is the entry's file together with the file
\* the index gives for the entry's name, when the name is in the index,
\* and no other.
C9_EntryAndIndexUnit ==
    (a.pc = "done" /\ EntryBodyNotFoundA)
    => /\ Len(a.clipboard) = 1
       /\ a.files_to_include =
              {a.entry_file} \cup (IF a.entry_method \in DOMAIN a.method_index
                                   THEN {a.method_index[a.entry_method]} ELSE {})
       /\ a.clipboard[1].file_list =
              [i \in DOMAIN a.files |-> file_contents[a.files[i]].name]
       /\ {a.files[i] : i \in DOMAIN a.files} = a.files_to_include

\* Mode A has ended with no body for the entry, whose name the index
\* gives to another file than the one with the marker.
C9_Witness ==
    /\ a.pc = "done" /\ EntryBodyNotFoundA
    /\ a.entry_method \in DOMAIN a.method_index
    /\ a.method_index[a.entry_method] # a.entry_file

(***************************************************************************)
(* C10: Mode A covers Mode B.  On the same files, when both modes have     *)
(* produced their report, every file with a section in Mode B's report is  *)
(* among the files Mode A includes.                                        *)
(***************************************************************************)
C10_ACoversB ==
    (a.pc = "done" /\ b.pc = "done")
    => \A i \in DOMAIN b.sorted_files : b.sorted_files[i] \in a.files_to_include

====
